---- MODULE Spec2Model ----
(***************************************************************************)
(* dns-over-tls-proxy (src/main.go): Handler.ServeDNS and resolveOverTLS   *)
(* run as concurrent goroutines over the process-wide go-cache store       *)
(* `inmem` (cache.New(1*time.Minute, 1*time.Minute)).                      *)
(*                                                                         *)
(* Time is the wall clock in whole seconds since the cache was built:       *)
(* every step happens on a whole second, and go-cache's nanosecond test    *)
(* time.Now() > Expiration is the same test on seconds.                    *)
(* An Answer is [ip, ttl]; a cache Item is [obj, exp] as in go-cache       *)
(* (Item{Object, Expiration}); NoItem is a key absent from the map.        *)
(***************************************************************************)
EXTENDS Integers, Sequences, FiniteSets, TLC

\* ------------------------------------------------------------ bounds
\* handler goroutines that run at the same time
NumHandlers == 2
\* inbound messages in a behaviour
MaxQueries == 2
\* the largest TTL an upstream A record carries
MaxTTL == 1
\* seconds the clock steps one by one after the start and after each
\* janitor run (the rest of a janitor interval passes in one Quiet step)
MaxElapsed == 2
\* janitor runs in a behaviour
MaxSweeps == 2

\* ------------------------------------------------- program constants
\* cache.New(1*time.Minute, ...): the default expiration, in seconds
DefaultExpiration == 60
\* cache.New(..., 1*time.Minute): the janitor's interval, in seconds
SweepInterval == 60
\* Answer.ttl is a uint32, held as two 16-bit halves [hi, lo]: 2^16
Word16 == 65536
GracePeriod == 3        \* context.WithTimeout(..., time.Second*3), line 88

Handlers == 1..NumHandlers
Domains == {"a.example.", "A.example."}
IPs == {"192.0.2.1", "192.0.2.2"}
TTLs == 0..MaxTTL

TypeA == "A"
TypeOther == "AAAA"
NoItem == [absent |-> TRUE]
NoWrite == [by |-> 0]
NilIP == "nil"

\* The uint32 with the value n mod 2^32 (n may be negative: two's complement).
U32(n) == [hi |-> (n \div Word16) % Word16, lo |-> n % Word16]

\* int64(u) of a uint32 u
U32Val(u) == u.hi * Word16 + u.lo

\* u <= v on uint32
U32Leq(u, v) == u.hi < v.hi \/ (u.hi = v.hi /\ u.lo <= v.lo)

\* var answer Answer: the zero value
ZeroAnswer == [ip |-> "", ttl |-> U32(0)]

\* The inbound messages r: r.Question is empty, or holds one question of
\* type A or of another type.
Queries ==
    {[question |-> <<>>]}
    \cup {[question |-> <<[name |-> n, qtype |-> t]>>] : n \in Domains, t \in {TypeA, TypeOther}}

\* The two servers of main, lines 46-59; each starts its own handler
\* goroutines, and a handler replies on the transport its query came by.
Transports == {"tcp", "udp"}
Transport(h) == IF h % 2 = 1 THEN "tcp" ELSE "udp"

\* No signal received yet: no context deadline; and no exit code yet.
NoDeadline == -1
NoExit == -1

\* strings.ToLower(msg.Question[0].Name) as the domain: the names that differ
\* only in case become one.
DomainLower(q) == IF q.question[1].name = "A.example." THEN "a.example." ELSE q.question[1].name

\* domain := msg.Question[0].Name (line 121)
Domain(q) == q.question[1].name

\* What c.Exchange can return: a transport error, a response with no answer
\* record, one whose first record is an A record, one whose first record is
\* of another type.
Responses ==
    {[kind |-> "error"], [kind |-> "empty"], [kind |-> "other"]}
    \cup [kind : {"A"}, ip : IPs, ttl : TTLs]

VARIABLES
    now,        \* time.Now(), whole seconds
    nextSweep,  \* the janitor ticker's next firing time
    items,      \* inmem: the go-cache map, Domains -> Item or NoItem
    lastWrite,  \* per key, the Set call whose store ran last (history):
                \* the query it served, what it stored, the time.Now() it read
    pc,         \* per handler goroutine, its position in ServeDNS
    req,        \* r: the inbound message
    reqId,      \* r.Id
    mem,        \* resolveOverTLS: mem, the Object GetWithExpiration returned
    expr,       \* resolveOverTLS: expr
    answer,     \* resolveOverTLS: answer
    useCache,   \* ServeDNS: useCache
    err,        \* ServeDNS: err ("" is nil)
    upstream,   \* the response c.Exchange returned for this query
    setAt,      \* go-cache Set: the time.Now() it read
    setExp,     \* go-cache Set: e
    replies,    \* the messages handed to w.WriteMsg for this query
    logs,       \* the log records emitted for this query
    exchanges,  \* c.Exchange calls made for this query
    wrote,      \* inmem.Set stores made for this query
    nQueries,   \* inbound messages received so far
    proc,       \* main: "running" (blocked on <-c), "shutdownTCP", "shutdownUDP"
                \* (inside that server's ShutdownContext), "exited"
    srv,        \* per server: "serving" (its ListenAndServe of lines 62-73 is
                \* running), "closed" (ShutdownContext has stopped it)
    deadline,   \* the deadline of ctx, or NoDeadline
    exitCode    \* the process's exit code, or NoExit

vars == <<now, nextSweep, items, lastWrite, pc, req, reqId, mem, expr, answer,
          useCache, err, upstream, setAt, setExp, replies, logs, exchanges,
          wrote, nQueries, proc, srv, deadline, exitCode>>

mvars == <<proc, srv, deadline, exitCode>>

hvars == <<pc, req, reqId, mem, expr, answer, useCache, err, upstream, setAt,
           setExp, replies, logs, exchanges, wrote, nQueries>>

\* -------------------------------------------------- pure operations

\* ServeDNS without the check of line 109: r.Question[0] of an empty question
\* section is an index out of range, a panic.
DispatchUnguarded(q) ==
    IF Len(q.question) = 0 THEN "panic"
    ELSE IF q.question[1].qtype = TypeA THEN "resolve"
    ELSE "notimpl"

\* ServeDNS lines 109-120 and 149: the branch an inbound message takes, to
\* resolveOverTLS or to log.Error("Not implemented yet").
Dispatch(q) ==
    IF Len(q.question) > 0
    THEN IF q.question[1].qtype = TypeA THEN "resolve" ELSE "notimpl"
    ELSE "notimpl"

\* go-cache GetWithExpiration(k) at time t: a miss when the key is absent or
\* the clock is past the item's expiration; otherwise the item.
CacheGet(m, k, t) ==
    IF m[k] = NoItem THEN [found |-> FALSE]
    ELSE IF t > m[k].exp THEN [found |-> FALSE]
    ELSE [found |-> TRUE, obj |-> m[k].obj, exp |-> m[k].exp]

\* uint32(expr.Sub(time.Now()).Seconds()): the values the conversion can
\* yield.  A negative float converted to uint32 is implementation-dependent
\* in Go: amd64 wraps modulo 2^32, arm64 saturates to 0.
RemainingTTL(e, t) ==
    IF e - t >= 0 THEN {U32(e - t)}
    ELSE {U32(0), U32(e - t)}

\* resolveOverTLS lines 178-192: the error and the answer after the exchange.
ExchangeResult(r) ==
    IF r.kind = "error" THEN [err |-> "DNS query error: transport", answer |-> ZeroAnswer]
    ELSE IF r.kind = "empty" THEN [err |-> "", answer |-> ZeroAnswer]
    ELSE IF r.kind = "A" THEN [err |-> "", answer |-> [ip |-> r.ip, ttl |-> U32(r.ttl)]]
    ELSE [err |-> "DNS query error", answer |-> ZeroAnswer]

\* resolveOverTLS without the returns of lines 180 and 190.
AfterExchangeNoReturn(res) == "set"

\* ServeDNS returning at line 125 when resolveOverTLS failed, before WriteMsg.
AfterExchangeDrop(res) == IF res.err = "" THEN "set" ELSE "done"

\* resolveOverTLS calling c.Exchange again when it failed.
AfterExchangeRetry(res) == IF res.err = "" THEN "set" ELSE "exchange"

\* resolveOverTLS lines 179-181 and 189-191: an error returns before the cache
\* is written.
AfterExchange(res) == IF res.err = "" THEN "set" ELSE "respond"

\* time.Duration(int64(answer.ttl))*time.Second handed to go-cache Set at
\* time t: duration 0 is go-cache's DefaultExpiration and means the cache's
\* default, a positive duration d gives t + d.
SetExpiration(t, ttl) ==
    IF U32Val(ttl) = 0 THEN t + DefaultExpiration ELSE t + U32Val(ttl)

\* inmem.Add in place of inmem.Set: an entry already in the map is kept.
CacheAdd(m, k, x, e) ==
    IF m[k] # NoItem THEN m ELSE [m EXCEPT ![k] = [obj |-> x, exp |-> e]]

\* go-cache Set under its mutex: c.items[k] = Item{Object: x, Expiration: e}
CacheSet(m, k, x, e) ==
    [m EXCEPT ![k] = [obj |-> x, exp |-> e]]

\* cache.New(1*time.Minute, 0): a cleanup interval of 0 starts no janitor, and
\* nothing is ever deleted.
DeleteNothing(m, t) == m

\* go-cache DeleteExpired at time t (the janitor's run).
DeleteExpired(m, t) ==
    [k \in Domains |-> IF m[k] # NoItem /\ t > m[k].exp THEN NoItem ELSE m[k]]

\* net.ParseIP: the empty string does not parse.
ParseIP(s) == IF s = "" THEN NilIP ELSE s

\* ServeDNS lines 105-106 and 133-140: the reply with its one answer record.
BuildReply(id, q, a) ==
    [id |-> id, question |-> q.question,
     answer |-> <<[name |-> Domain(q), rrtype |-> TypeA, ttl |-> a.ttl, a |-> ParseIP(a.ip)]>>]

\* ---------------------------------------------------------- Init

\* The cache and the clock at construction (line 42).
InitCache ==
    /\ now = 0
    /\ nextSweep = SweepInterval
    /\ items = [k \in Domains |-> NoItem]
    /\ lastWrite = [k \in Domains |-> NoWrite]

\* No query received yet.
InitHandlers ==
    /\ pc = [h \in Handlers |-> "idle"]
    /\ req = [h \in Handlers |-> [question |-> <<>>]]
    /\ reqId = [h \in Handlers |-> 0]
    /\ mem = [h \in Handlers |-> ZeroAnswer]
    /\ expr = [h \in Handlers |-> 0]
    /\ answer = [h \in Handlers |-> ZeroAnswer]
    /\ useCache = [h \in Handlers |-> FALSE]
    /\ err = [h \in Handlers |-> ""]
    /\ upstream = [h \in Handlers |-> [kind |-> "none"]]
    /\ setAt = [h \in Handlers |-> 0]
    /\ setExp = [h \in Handlers |-> 0]
    /\ replies = [h \in Handlers |-> <<>>]
    /\ logs = [h \in Handlers |-> {}]
    /\ exchanges = [h \in Handlers |-> 0]
    /\ wrote = [h \in Handlers |-> 0]
    /\ nQueries = 0

\* main blocked on <-c (line 84) with both ListenAndServe goroutines running.
Serving ==
    /\ proc = "running"
    /\ srv = [t \in Transports |-> "serving"]
    /\ deadline = NoDeadline
    /\ exitCode = NoExit

\* The serving process: the cache is empty and both servers listen.
Init == InitCache /\ InitHandlers /\ Serving

\* The serving process some time into its life: an earlier query, finished
\* since, has stored at time 0 the entry of a.example. with the TTL it got.
InitWarm ==
    /\ now = 0
    /\ nextSweep = SweepInterval
    /\ \E t \in TTLs :
         LET x == [ip |-> "192.0.2.1", ttl |-> U32(t)]
             e == SetExpiration(0, U32(t))
         IN /\ items = CacheSet([k \in Domains |-> NoItem], "a.example.", x, e)
            /\ lastWrite = [k \in Domains |->
                              IF k = "a.example."
                              THEN [by |-> 0, obj |-> x, at |-> 0, exp |-> e]
                              ELSE NoWrite]
    /\ InitHandlers
    /\ Serving

\* ------------------------------------------------------- actions

\* A panic in a handler goroutine is not recovered: it ends the process, and
\* nothing of it runs any more; nor does anything run after log.Fatal or
\* os.Exit.
Running == proc # "exited" /\ \A h \in Handlers : pc[h] # "panic"

\* resolveOverTLS taking a lock of its own at the cache miss and releasing it
\* after the cache is written.
CriticalSectionAcrossExchange == {"exchange", "set", "store"}

\* The positions at which a handler holds inmem's mutex from one step to the
\* next: none.  go-cache locks and unlocks inside GetWithExpiration (line 158)
\* and inside Set (line 195), and resolveOverTLS takes no lock of its own.
CriticalSection == {}

\* inmem's mutex can be taken by h (and by the janitor, h = 0): no other
\* goroutine holds it.
CacheFree(h) == \A g \in Handlers \ {h} : pc[g] \notin CriticalSection

\* The server starts ServeDNS(w, r) in a goroutine: lines 104-121 and 149.
Receive(h, q) ==
    /\ Running
    /\ srv[Transport(h)] = "serving"
    /\ pc[h] \in {"idle", "done"}
    /\ nQueries < MaxQueries
    /\ nQueries' = nQueries + 1
    /\ req' = [req EXCEPT ![h] = q]
    /\ reqId' = [reqId EXCEPT ![h] = nQueries + 1]
    /\ mem' = [mem EXCEPT ![h] = ZeroAnswer]
    /\ expr' = [expr EXCEPT ![h] = 0]
    /\ answer' = [answer EXCEPT ![h] = ZeroAnswer]
    /\ useCache' = [useCache EXCEPT ![h] = FALSE]
    /\ err' = [err EXCEPT ![h] = ""]
    /\ upstream' = [upstream EXCEPT ![h] = [kind |-> "none"]]
    /\ setAt' = [setAt EXCEPT ![h] = 0]
    /\ setExp' = [setExp EXCEPT ![h] = 0]
    /\ replies' = [replies EXCEPT ![h] = <<>>]
    /\ exchanges' = [exchanges EXCEPT ![h] = 0]
    /\ wrote' = [wrote EXCEPT ![h] = 0]
    /\ logs' = [logs EXCEPT ![h] =
                 (IF Len(q.question) > 0 THEN {"DNS request"} ELSE {})
                 \cup (IF Dispatch(q) = "notimpl" THEN {"error: Not implemented yet"} ELSE {})]
    /\ pc' = [pc EXCEPT ![h] = CASE Dispatch(q) = "resolve" -> "lookup"
                                 [] Dispatch(q) = "notimpl" -> "done"
                                 [] OTHER -> "panic"]
    /\ UNCHANGED <<now, nextSweep, items, lastWrite>>
    /\ UNCHANGED mvars

\* resolveOverTLS line 158: inmem.GetWithExpiration(domain).
Lookup(h) ==
    /\ Running
    /\ pc[h] = "lookup"
    /\ CacheFree(h)
    /\ LET g == CacheGet(items, Domain(req[h]), now) IN
        IF g.found
        THEN /\ mem' = [mem EXCEPT ![h] = g.obj]
             /\ expr' = [expr EXCEPT ![h] = g.exp]
             /\ answer' = [answer EXCEPT ![h] = g.obj]
             /\ pc' = [pc EXCEPT ![h] = "ttl"]
        ELSE /\ pc' = [pc EXCEPT ![h] = "exchange"]
             /\ UNCHANGED <<mem, expr, answer>>
    /\ UNCHANGED <<now, nextSweep, items, lastWrite, req, reqId, useCache, err,
                   upstream, setAt, setExp, replies, logs, exchanges, wrote, nQueries>>
    /\ UNCHANGED mvars

\* resolveOverTLS lines 161-162: the remaining TTL from a fresh time.Now();
\* the function returns and its locals mem and expr are gone.
ComputeTTL(h) ==
    /\ Running
    /\ pc[h] = "ttl"
    /\ \E v \in RemainingTTL(expr[h], now) :
         answer' = [answer EXCEPT ![h] = [ip |-> mem[h].ip, ttl |-> v]]
    /\ useCache' = [useCache EXCEPT ![h] = TRUE]
    /\ mem' = [mem EXCEPT ![h] = ZeroAnswer]
    /\ expr' = [expr EXCEPT ![h] = 0]
    /\ pc' = [pc EXCEPT ![h] = "respond"]
    /\ UNCHANGED <<now, nextSweep, items, lastWrite, req, reqId, err,
                   upstream, setAt, setExp, replies, logs, exchanges, wrote, nQueries>>
    /\ UNCHANGED mvars

\* resolveOverTLS lines 166-192: c.Exchange returns r.
Exchange(h, r) ==
    /\ Running
    /\ pc[h] = "exchange"
    /\ upstream' = [upstream EXCEPT ![h] = r]
    /\ exchanges' = [exchanges EXCEPT ![h] = @ + 1]
    /\ err' = [err EXCEPT ![h] = ExchangeResult(r).err]
    /\ answer' = [answer EXCEPT ![h] = ExchangeResult(r).answer]
    /\ pc' = [pc EXCEPT ![h] = AfterExchange(ExchangeResult(r))]
    /\ UNCHANGED <<now, nextSweep, items, lastWrite, req, reqId, mem, expr, useCache,
                   setAt, setExp, replies, logs, wrote, nQueries>>
    /\ UNCHANGED mvars

\* resolveOverTLS line 195, first half: go-cache Set computes the expiration
\* from time.Now() before it takes the mutex.
SetBegin(h) ==
    /\ Running
    /\ pc[h] = "set"
    /\ setAt' = [setAt EXCEPT ![h] = now]
    /\ setExp' = [setExp EXCEPT ![h] = SetExpiration(now, answer[h].ttl)]
    /\ pc' = [pc EXCEPT ![h] = "store"]
    /\ UNCHANGED <<now, nextSweep, items, lastWrite, req, reqId, mem, expr, answer,
                   useCache, err, upstream, replies, logs, exchanges, wrote, nQueries>>
    /\ UNCHANGED mvars

\* resolveOverTLS line 195, second half: the store under the mutex; Set returns.
Store(h) ==
    /\ Running
    /\ pc[h] = "store"
    /\ CacheFree(h)
    /\ items' = CacheSet(items, Domain(req[h]), answer[h], setExp[h])
    /\ lastWrite' = [lastWrite EXCEPT ![Domain(req[h])] =
                       [by |-> reqId[h], obj |-> answer[h], at |-> setAt[h], exp |-> setExp[h]]]
    /\ wrote' = [wrote EXCEPT ![h] = @ + 1]
    /\ setAt' = [setAt EXCEPT ![h] = 0]
    /\ setExp' = [setExp EXCEPT ![h] = 0]
    /\ pc' = [pc EXCEPT ![h] = "respond"]
    /\ UNCHANGED <<now, nextSweep, req, reqId, mem, expr, answer, useCache, err,
                   upstream, replies, logs, exchanges, nQueries>>
    /\ UNCHANGED mvars

\* ServeDNS lines 125-146: log, append the answer record, w.WriteMsg.
Respond(h) ==
    /\ Running
    /\ pc[h] = "respond"
    /\ logs' = [logs EXCEPT ![h] =
                 @ \cup (IF err[h] # "" THEN {err[h]} ELSE {})
                   \cup {IF useCache[h] THEN "use_cache=true" ELSE "use_cache=false"}]
    /\ replies' = [replies EXCEPT ![h] = Append(@, BuildReply(reqId[h], req[h], answer[h]))]
    /\ pc' = [pc EXCEPT ![h] = "done"]
    /\ UNCHANGED <<now, nextSweep, items, lastWrite, req, reqId, mem, expr, answer,
                   useCache, err, upstream, setAt, setExp, exchanges, wrote, nQueries>>
    /\ UNCHANGED mvars

\* The clock advances by one second.  The janitor runs when its ticker fires,
\* so the clock does not pass nextSweep before Sweep has run.  During a
\* shutdown the clock runs on to the deadline; the clock of a process that
\* has exited stays at the time of the exit.
Tick ==
    /\ proc # "exited"
    /\ now < nextSweep
    /\ \/ now % SweepInterval < MaxElapsed
       \/ now % SweepInterval = SweepInterval - 1
       \/ (proc \in {"shutdownTCP", "shutdownUDP"} /\ now < deadline)
    /\ now' = now + 1
    /\ UNCHANGED <<nextSweep, items, lastWrite, hvars>>
    /\ UNCHANGED mvars

\* A quiet period: no query is in flight and the clock advances to the last
\* second before the janitor's next run.
Quiet ==
    /\ proc = "running"
    /\ \A h \in Handlers : pc[h] \in {"idle", "done"}
    /\ nextSweep <= MaxSweeps * SweepInterval
    /\ now < nextSweep - 1
    /\ now' = nextSweep - 1
    /\ UNCHANGED <<nextSweep, items, lastWrite, hvars>>
    /\ UNCHANGED mvars

\* The go-cache janitor (cleanup interval of line 42): DeleteExpired.
Sweep ==
    /\ Running
    /\ now = nextSweep
    /\ CacheFree(0)
    /\ items' = DeleteExpired(items, now)
    /\ nextSweep' = nextSweep + SweepInterval
    /\ UNCHANGED <<now, lastWrite, hvars>>
    /\ UNCHANGED mvars

\* No handler goroutine of server t is in flight.
Drained(t) ==
    \A h \in Handlers : Transport(h) = t => pc[h] \in {"idle", "done"}

\* A ShutdownContext that returns without waiting (a context that is already
\* cancelled).
ShutdownNoWait(t) == TRUE

\* srv.ShutdownContext(ctx) returns (lines 92, 96): when the server's
\* handlers in flight have finished (at once when there is none), or with
\* ctx's error when the deadline is reached.
ShutdownDone(t) ==
    \/ Drained(t)
    \/ now >= deadline

\* Handler h is in flight: its query is received and ServeDNS has not
\* returned.
InFlight(h) == pc[h] \notin {"idle", "done"}

\* log.Fatal and os.Exit end the process with the given code: every goroutine
\* ends where it is, and the handlers in flight are killed with their locals.
\* What the process has sent and logged stays.
ExitProcess(code) ==
    /\ proc' = "exited"
    /\ exitCode' = code
    /\ pc' = [h \in Handlers |-> IF InFlight(h) THEN "killed" ELSE pc[h]]
    /\ mem' = [h \in Handlers |-> IF InFlight(h) THEN ZeroAnswer ELSE mem[h]]
    /\ expr' = [h \in Handlers |-> IF InFlight(h) THEN 0 ELSE expr[h]]
    /\ answer' = [h \in Handlers |-> IF InFlight(h) THEN ZeroAnswer ELSE answer[h]]
    /\ useCache' = [h \in Handlers |-> IF InFlight(h) THEN FALSE ELSE useCache[h]]
    /\ err' = [h \in Handlers |-> IF InFlight(h) THEN "" ELSE err[h]]
    /\ upstream' = [h \in Handlers |-> IF InFlight(h) THEN [kind |-> "none"] ELSE upstream[h]]
    /\ setAt' = [h \in Handlers |-> IF InFlight(h) THEN 0 ELSE setAt[h]]
    /\ setExp' = [h \in Handlers |-> IF InFlight(h) THEN 0 ELSE setExp[h]]
    /\ UNCHANGED <<now, nextSweep, items, lastWrite, req, reqId, replies, logs,
                   exchanges, wrote, nQueries, srv, deadline>>

\* A ListenAndServe of lines 62-73 returns an error, at the bind or later:
\* log.Fatal(err) ends the process with code 1.  After its ShutdownContext a
\* server's ListenAndServe returns nil.
ListenFail(t) ==
    /\ Running
    /\ srv[t] = "serving"
    /\ ExitProcess(1)

\* main lines 84-92: the signal arrives, ctx gets its deadline and
\* srvTCP.ShutdownContext(ctx) is called, which stops the server from
\* accepting.
Signal ==
    /\ Running
    /\ proc = "running"
    /\ proc' = "shutdownTCP"
    /\ deadline' = now + GracePeriod
    /\ srv' = [srv EXCEPT !["tcp"] = "closed"]
    /\ UNCHANGED <<now, nextSweep, items, lastWrite, hvars, exitCode>>

\* main lines 92-96: srvTCP.ShutdownContext returns, its error is logged, and
\* srvUDP.ShutdownContext(ctx) is called with the same ctx.
ShutdownTCP ==
    /\ Running
    /\ proc = "shutdownTCP"
    /\ ShutdownDone("tcp")
    /\ proc' = "shutdownUDP"
    /\ srv' = [srv EXCEPT !["udp"] = "closed"]
    /\ UNCHANGED <<now, nextSweep, items, lastWrite, hvars, deadline, exitCode>>

\* main lines 96-100: srvUDP.ShutdownContext returns, its error is logged, and
\* os.Exit(0).
ShutdownUDP ==
    /\ Running
    /\ proc = "shutdownUDP"
    /\ ShutdownDone("udp")
    /\ ExitProcess(0)

Next ==
    \/ \E h \in Handlers, q \in Queries : Receive(h, q)
    \/ \E h \in Handlers : Lookup(h)
    \/ \E h \in Handlers : ComputeTTL(h)
    \/ \E h \in Handlers, r \in Responses : Exchange(h, r)
    \/ \E h \in Handlers : SetBegin(h)
    \/ \E h \in Handlers : Store(h)
    \/ \E h \in Handlers : Respond(h)
    \/ Tick
    \/ Quiet
    \/ Sweep

\* The serving process, its cache and its janitor.
Spec == Init /\ [][Next]_vars

\* The serving process whose handler goroutines are scheduled and whose
\* upstream exchanges return (an answer, an error or the client's timeout):
\* a handler that can take its next step takes it.
SpecLive ==
    /\ Spec
    /\ \A h \in Handlers :
         /\ WF_vars(Lookup(h))
         /\ WF_vars(ComputeTTL(h))
         /\ WF_vars(\E r \in Responses : Exchange(h, r))
         /\ WF_vars(SetBegin(h))
         /\ WF_vars(Store(h))
         /\ WF_vars(Respond(h))

\* The serving process with an entry in its cache.
SpecWarm == InitWarm /\ [][Next]_vars

\* The process to its exit, in its first minute: the listeners, the handlers,
\* the signal and the shutdown.
NextProc ==
    \/ \E t \in Transports : ListenFail(t)
    \/ Signal
    \/ ShutdownTCP
    \/ ShutdownUDP
    \/ \E h \in Handlers, q \in Queries : Receive(h, q)
    \/ \E h \in Handlers : Lookup(h)
    \/ \E h \in Handlers : ComputeTTL(h)
    \/ \E h \in Handlers, r \in Responses : Exchange(h, r)
    \/ \E h \in Handlers : SetBegin(h)
    \/ \E h \in Handlers : Store(h)
    \/ \E h \in Handlers : Respond(h)
    \/ Tick

SpecProc == Init /\ [][NextProc]_vars

\* ------------------------------------------------------ the claims

\* A uint32 read as the signed remaining time it came from: 2^31 and above
\* is a wrapped negative.
U32Wrapped(u) == u.hi >= Word16 \div 2

ErrorLog == "error: Not implemented yet"

\* C1: a lookup that finds an entry (GetWithExpiration returns found=true,
\* so no upstream query is made) finds it only while the entry's remaining
\* TTL in whole seconds, expiration - now, is above 0; and the remaining TTL
\* a hit serves is above 0: neither 0 nor a wrapped negative.
C1_HitOnlyWithRemainingTTL ==
    [][\A h \in Handlers :
         /\ (pc[h] = "lookup" /\ pc'[h] = "ttl")
            => (/\ items[Domain(req[h])] # NoItem
                /\ items[Domain(req[h])].exp - now > 0)
         /\ (pc[h] = "ttl" /\ pc'[h] = "respond")
            => (/\ answer'[h].ttl # U32(0)
                /\ ~U32Wrapped(answer'[h].ttl))]_vars

\* C2: on every cache hit the TTL returned to the client is not a wrapped
\* negative and is at most the TTL the entry was inserted with (the ttl of
\* the stored Answer).
C2_HitTTLAtMostInserted ==
    [][\A h \in Handlers :
         (pc[h] = "ttl" /\ pc'[h] = "respond")
         => /\ ~U32Wrapped(answer'[h].ttl)
            /\ U32Leq(answer'[h].ttl, mem[h].ttl)]_vars

\* C3: every entry of the cache expires at its insertion time plus the TTL
\* of the answer stored in it.
C3_ExpirationIsInsertionPlusTTL ==
    \A k \in Domains :
        items[k] # NoItem
        => items[k].exp = lastWrite[k].at + U32Val(items[k].obj.ttl)

\* C4: a query whose upstream exchange failed (transport error, or a first
\* record that is not an A record) has got one reply, with no answer record.
C4_FailureReplyHasNoAnswer ==
    \A h \in Handlers :
        (pc[h] = "done" /\ upstream[h].kind \in {"error", "other"})
        => /\ Len(replies[h]) = 1
           /\ replies[h][1].answer = <<>>

\* C5: a query whose first question is not of type A does not crash the
\* process and has got one reply, with no answer record.
C5_UnsupportedTypeReplied ==
    \A h \in Handlers :
        (pc[h] # "idle" /\ Len(req[h].question) > 0 /\ req[h].question[1].qtype # TypeA)
        => /\ pc[h] = "done"
           /\ Len(replies[h]) = 1
           /\ replies[h][1].answer = <<>>

\* C6: a query with an empty question section gets no reply (WriteMsg is not
\* called), the error record is logged, and the handler has returned (no
\* panic), so the process goes on serving.
C6_EmptyQuestionNoReply ==
    \A h \in Handlers :
        (pc[h] # "idle" /\ Len(req[h].question) = 0)
        => /\ pc[h] = "done"
           /\ replies[h] = <<>>
           /\ logs[h] = {ErrorLog}
           /\ exchanges[h] = 0 /\ wrote[h] = 0

\* C6's case: a query with an empty question section was handled, and a query
\* that arrived after it has been answered.
C6_Witness ==
    \E h, g \in Handlers :
        /\ pc[h] = "done" /\ Len(req[h].question) = 0
        /\ pc[g] = "done" /\ reqId[g] > reqId[h]
        /\ Len(replies[g]) = 1

\* C7: when resolveOverTLS ends with an error, the query has stored nothing
\* in the cache.
C7_ErrorStoresNothing ==
    \A h \in Handlers :
        (pc[h] \in {"respond", "done"} /\ err[h] # "")
        => /\ wrote[h] = 0
           /\ lastWrite[Domain(req[h])].by # reqId[h]

\* C7's case: a query got a response whose first record is not an A record,
\* the cache holds no entry for its domain, and a later query for the same
\* domain has missed the cache and is in its own upstream exchange.
C7_Witness ==
    \E h, g \in Handlers :
        /\ pc[h] = "done" /\ exchanges[h] = 1 /\ upstream[h].kind = "other"
        /\ items[Domain(req[h])] = NoItem
        /\ reqId[g] > reqId[h] /\ req[g] = req[h]
        /\ pc[g] = "exchange"

\* C8: a response with no answer record gives no error and stores an entry
\* with an empty address and TTL 0 that has a zero lifetime (it expires at its
\* insertion time), and the reply carries one answer record with TTL 0 and no
\* address.
C8_EmptyResponseZeroLifetime ==
    \A h \in Handlers :
        (upstream[h].kind = "empty" /\ pc[h] \in {"respond", "done"})
        => /\ err[h] = ""
           /\ wrote[h] = 1
           /\ (lastWrite[Domain(req[h])].by = reqId[h] /\ items[Domain(req[h])] # NoItem)
              => (/\ items[Domain(req[h])].obj = ZeroAnswer
                  /\ items[Domain(req[h])].exp = lastWrite[Domain(req[h])].at)
           /\ (pc[h] = "done")
              => (/\ Len(replies[h]) = 1
                  /\ Len(replies[h][1].answer) = 1
                  /\ replies[h][1].answer[1].ttl = U32(0)
                  /\ replies[h][1].answer[1].a = NilIP)

\* C9, the miss: a query that missed the cache and got an A record with
\* address a and TTL t > 0 stores an entry for its domain and replies with
\* exactly one answer record, of address a and TTL t.
C9_Miss(h) ==
    /\ (pc[h] = "store" /\ pc'[h] = "respond" /\ U32Val(answer[h].ttl) > 0)
       => (/\ items'[Domain(req[h])] # NoItem
           /\ items'[Domain(req[h])].obj = answer[h])
    /\ (pc[h] = "respond" /\ pc'[h] = "done" /\ upstream[h].kind = "A" /\ upstream[h].ttl > 0)
       => (/\ wrote[h] = 1
           /\ Len(replies'[h]) = 1
           /\ Len(replies'[h][1].answer) = 1
           /\ replies'[h][1].answer[1].a = upstream[h].ip
           /\ replies'[h][1].answer[1].ttl = U32(upstream[h].ttl))

\* C9, the hit: a query that finds an entry stored with address a and TTL
\* t > 0 makes no upstream exchange and is answered with address a, a TTL of
\* at most t and use_cache=true.
C9_Hit(h) ==
    /\ (pc[h] = "ttl" /\ pc'[h] = "respond" /\ U32Val(mem[h].ttl) > 0)
       => (/\ exchanges'[h] = 0
           /\ useCache'[h]
           /\ answer'[h].ip = mem[h].ip
           /\ U32Leq(answer'[h].ttl, mem[h].ttl))
    /\ (pc[h] = "respond" /\ pc'[h] = "done" /\ useCache[h])
       => (/\ "use_cache=true" \in logs'[h]
           /\ Len(replies'[h]) = 1
           /\ Len(replies'[h][1].answer) = 1
           /\ replies'[h][1].answer[1].a = ParseIP(answer[h].ip)
           /\ replies'[h][1].answer[1].ttl = answer[h].ttl)

\* C9: the miss-then-hit sequence, both halves.
C9_HitAfterMiss ==
    [][\A h \in Handlers : C9_Miss(h) /\ C9_Hit(h)]_vars

\* C10: whatever the interleaving of concurrent misses, the entry the cache
\* holds for a domain is, whole, the one of the Set call that stored last:
\* its answer and its expiration.
C10_LastWriterWins ==
    \A k \in Domains :
        items[k] # NoItem
        => /\ lastWrite[k] # NoWrite
           /\ items[k].obj = lastWrite[k].obj
           /\ items[k].exp = lastWrite[k].exp

\* C10's case: two handlers missed the cache for the same domain, both made
\* an upstream exchange with different answers, both stored, and the cache
\* holds the entry of the one that stored last.
C10_Witness ==
    \E h, g \in Handlers :
        /\ h # g /\ req[h] = req[g]
        /\ pc[h] = "respond" /\ pc[g] = "respond"
        /\ exchanges[h] = 1 /\ exchanges[g] = 1
        /\ wrote[h] = 1 /\ wrote[g] = 1
        /\ answer[h].ip # answer[g].ip
        /\ lastWrite[Domain(req[h])].by = reqId[g]
        /\ items[Domain(req[h])].obj = answer[g]
        /\ now = 0

\* C11: a handler inside its upstream exchange holds no shared resource: it
\* does not hold the cache's mutex, and every other handler in flight can take
\* its next step, whichever it is: cache lookup, TTL computation, its own
\* upstream exchange (with any outcome), cache write, reply.
C11_ExchangeBlocksNobody ==
    \A h \in Handlers :
        pc[h] = "exchange"
        => /\ pc[h] \notin CriticalSection
           /\ \A g \in Handlers \ {h} :
                /\ pc[g] = "lookup" => ENABLED Lookup(g)
                /\ pc[g] = "ttl" => ENABLED ComputeTTL(g)
                /\ pc[g] = "exchange" => \A r \in Responses : ENABLED Exchange(g, r)
                /\ pc[g] = "set" => ENABLED SetBegin(g)
                /\ pc[g] = "store" => ENABLED Store(g)
                /\ pc[g] = "respond" => ENABLED Respond(g)

\* C11's case: a handler is still inside its upstream exchange for a domain,
\* and a query that arrived after it has missed the cache for the same
\* domain, made its own exchange, written the cache and replied.
C11_Witness ==
    \E h, g \in Handlers :
        /\ pc[h] = "exchange"
        /\ pc[g] = "done" /\ reqId[g] > reqId[h]
        /\ req[g] = req[h]
        /\ exchanges[g] = 1 /\ wrote[g] = 1 /\ Len(replies[g]) = 1
        /\ lastWrite[Domain(req[g])].by = reqId[g]

\* C13: no retries.  A query makes at most one upstream exchange, and none
\* when it is answered from the cache, when its type is not A or when its
\* question section is empty; a failed exchange ends the query without a
\* cache write, so that it reaches no other query; and every type A query
\* that was not answered from the cache has made an exchange of its own.
C13_NoRetry ==
    \A h \in Handlers :
        /\ exchanges[h] <= 1
        /\ useCache[h] => exchanges[h] = 0
        /\ (pc[h] # "idle" /\ Dispatch(req[h]) = "notimpl") => exchanges[h] = 0
        /\ err[h] # "" => (exchanges[h] = 1 /\ wrote[h] = 0 /\ pc[h] \in {"respond", "done"})
        /\ (pc[h] \in {"respond", "done"} /\ Dispatch(req[h]) = "resolve")
           => (useCache[h] \/ exchanges[h] = 1)

\* C13's case: a query's exchange failed, and a later query for the same
\* domain has made an exchange of its own, which succeeded, and has replied
\* with the address it obtained.
C13_Witness ==
    \E h, g \in Handlers :
        /\ pc[h] = "done" /\ err[h] # "" /\ exchanges[h] = 1
        /\ pc[g] = "done" /\ reqId[g] > reqId[h] /\ req[g] = req[h]
        /\ exchanges[g] = 1 /\ upstream[g].kind = "A" /\ err[g] = ""
        /\ Len(replies[g]) = 1 /\ replies[g][1].answer[1].a = upstream[g].ip

\* C16: every reply handed to WriteMsg carries the identifier and the
\* question of the query it answers and at most one answer record, and one
\* only when an address was obtained, from the cache or from the upstream.
C16_ReplyMirrorsQuery ==
    \A h \in Handlers :
        \A i \in 1..Len(replies[h]) :
            /\ replies[h][i].id = reqId[h]
            /\ replies[h][i].question = req[h].question
            /\ Len(replies[h][i].answer) <= 1
            /\ Len(replies[h][i].answer) = 1 => replies[h][i].answer[1].a # NilIP

\* C19: a query that is not served (empty question section, or a first
\* question of another type than A) is finished on receipt and has read
\* nothing from the cache, written nothing to it and made no exchange; and
\* the cache is keyed by the name as received: a lookup returns the entry
\* stored under the query's own name string, and a step changes the entry of
\* a name only if it is the janitor's sweep or the store of a type A query
\* for that identical name string.
C19_NotServedAndKey ==
    [][/\ \A h \in Handlers :
            (pc'[h] # "idle" /\ Dispatch(req'[h]) = "notimpl")
            => /\ pc'[h] = "done"
               /\ exchanges'[h] = 0 /\ wrote'[h] = 0 /\ ~useCache'[h]
               /\ mem'[h] = ZeroAnswer /\ answer'[h] = ZeroAnswer
               /\ replies'[h] = <<>>
       /\ (\E h \in Handlers : reqId'[h] # reqId[h] /\ Dispatch(req'[h]) = "notimpl")
          => (items' = items /\ lastWrite' = lastWrite)
       /\ \A h \in Handlers :
            (pc[h] = "lookup" /\ pc'[h] = "ttl")
            => /\ items[req[h].question[1].name] # NoItem
               /\ mem'[h] = items[req[h].question[1].name].obj
               /\ expr'[h] = items[req[h].question[1].name].exp
       /\ \A k \in Domains :
            items'[k] # items[k]
            => \/ nextSweep' # nextSweep
               \/ \E h \in Handlers :
                    /\ pc[h] = "store" /\ pc'[h] = "respond"
                    /\ req[h].question[1].qtype = TypeA
                    /\ req[h].question[1].name = k]_vars

\* C19's case: the cache holds a live entry for a.example., and a later type
\* A query for A.example. has missed the cache and is in its own upstream
\* exchange.
C19_Witness ==
    \E h, g \in Handlers :
        /\ items["a.example."] # NoItem /\ now <= items["a.example."].exp
        /\ items["A.example."] = NoItem
        /\ pc[h] = "exchange" /\ req[h].question[1].name = "A.example."
        /\ reqId[h] > lastWrite["a.example."].by
        /\ pc[g] = "done" /\ lastWrite["a.example."].by = reqId[g]

C15_NoHandlerFailureIsFatal ==
    [][/\ \A h \in Handlers : pc'[h] # "panic"
       /\ (proc # "exited" /\ proc' = "exited")
          => /\ \/ (exitCode' = 1 /\ \E t \in Transports : srv[t] = "serving")
                \/ (exitCode' = 0 /\ proc = "shutdownUDP" /\ deadline # NoDeadline)
             /\ nQueries' = nQueries /\ replies' = replies
             /\ exchanges' = exchanges /\ wrote' = wrote
       /\ proc' # "exited" => exitCode' = NoExit
       /\ \A h \in Handlers :
            (proc = "running" /\ pc[h] \in {"idle", "done"} /\ nQueries < MaxQueries)
            => \A q \in Queries : ENABLED Receive(h, q)]_vars

\* C15's case: a query with an empty question section was dropped, and the
\* process, still running, has served a later query, whose upstream exchange
\* failed, and is ready for the next.
C15_Witness ==
    /\ proc = "running" /\ exitCode = NoExit
    /\ \E h, g \in Handlers :
        /\ pc[h] = "done" /\ req[h].question = <<>>
        /\ pc[g] = "done" /\ reqId[g] > reqId[h]
        /\ upstream[g].kind \in {"error", "other"}
        /\ Len(replies[g]) = 1

\* C17: a cache hit leaves the cache as it is: the lookup, the remaining-TTL
\* computation and the reply of a hit change no entry, neither its address
\* nor its expiration; and for one stored entry the TTLs of successive hits
\* do not increase: a hit that computes its TTL when another hit on the same
\* entry has computed its own returns at most that TTL.
C17_HitLeavesCacheUnchanged ==
    [][/\ \A h \in Handlers :
            \/ (pc[h] = "lookup" /\ pc'[h] = "ttl")
            \/ (pc[h] = "ttl" /\ pc'[h] = "respond")
            \/ (pc[h] = "respond" /\ pc'[h] = "done" /\ useCache[h])
            => (items' = items /\ lastWrite' = lastWrite)
       /\ \A h, g \in Handlers :
            (/\ h # g
             /\ pc[g] = "ttl" /\ pc'[g] = "respond"
             /\ pc[h] \in {"respond", "done"} /\ useCache[h]
             /\ req[h] = req[g]
             /\ lastWrite[Domain(req[g])].by = 0)
            => U32Leq(answer'[g].ttl, answer[h].ttl)]_vars

\* C18: every query whose first question is of type A eventually has its
\* one reply handed to WriteMsg, whether it is answered from the cache, from
\* a successful upstream exchange or after a failed one; no reply is written
\* before the query is resolved, and never a second one.
C18_OneReplyEventually ==
    /\ [](\A h \in Handlers :
            /\ Len(replies[h]) <= 1
            /\ pc[h] \in {"lookup", "ttl", "exchange", "set", "store", "respond"}
               => Len(replies[h]) = 0
            /\ (pc[h] = "done" /\ Dispatch(req[h]) = "resolve") => Len(replies[h]) = 1)
    /\ \A h \in Handlers :
         (pc[h] = "lookup") ~> (pc[h] = "done" /\ Len(replies[h]) = 1)

\* C18's case: a query answered after its own upstream exchange and a query
\* answered from the cache have each got their one reply.
C18_Witness ==
    \E h, g \in Handlers :
        /\ pc[h] = "done" /\ useCache[h] /\ Len(replies[h]) = 1
        /\ pc[g] = "done" /\ exchanges[g] = 1 /\ Len(replies[g]) = 1

====
